---- MODULE Spec2Model ----
(***************************************************************************)
(* Ranking of optional, non-overlapping intervals with a circuit           *)
(* constraint: ortools/sat/samples/ranking_circuit_sample_sat.py.          *)
(*                                                                         *)
(* The state is the CpModel being built (its variables, constraints and    *)
(* objective), the locals of rank_tasks_with_circuit (arcs, i, j), the     *)
(* position of the program (pc), and the outcome of solver.Solve.          *)
(* Python indices are kept 0-based; TLA+ sequences are 1-based, so         *)
(* x[i] of the source is x[i + 1] here.                                    *)
(***************************************************************************)
EXTENDS Integers, Sequences, FiniteSets, TLC

VARIABLES args, model, arcs, i, j, pc, err, status, sol, out, t

vars == <<args, model, arcs, i, j, pc, err, status, sol, out, t>>

(* Bounds of the explored instances. *)
MaxTasks == 3
MaxDur == 2
Horizon == 2
(* The sample's horizon is 100 (line 108); the start and makespan domains   *)
(* are explored up to this bound instead.                                  *)
SampleHorizon == 10

(* num_tasks of ranking_sample_sat *)
sample_num_tasks == 4

(***************************************************************************)
(* Variables, literals, linear expressions.  As in a CpModel, a variable   *)
(* is its index in model.variables; its name is kept with its domain.      *)
(***************************************************************************)
StartVar(k) == <<"start", k, 0>>
PresenceVar(k) == <<"presence", k, 0>>
RankVar(k) == <<"rank", k, 0>>
MakespanVar == <<"makespan", 0, 0>>
StartLit(k) == <<"start_", k, 0>>
EndLit(k) == <<"end_", k, 0>>
ArcLit(a, b) == <<"arc_", a, b>>
EmptyLit == <<"empty", 0, 0>>

Pos(v) == [var |-> v, pos |-> TRUE]
Not(v) == [var |-> v, pos |-> FALSE]

(* terms: sequence of <<coefficient, variable>>; const: the constant term *)
Lin(terms, c) == [terms |-> terms, const |-> c]
Const(c) == Lin(<<>>, c)
Var(v) == Lin(<<<<1, v>>>>, 0)
VarPlus(v, c) == Lin(<<<<1, v>>>>, c)

Linear(lhs, op, rhs, enf) ==
    [type |-> "linear", lhs |-> lhs, op |-> op, rhs |-> rhs, enf |-> enf]
Implication(a, b) == [type |-> "implication", a |-> a, b |-> b]
Circuit(as) == [type |-> "circuit", arcs |-> as]
NoOverlap(ivs) == [type |-> "no_overlap", intervals |-> ivs]
Arc(tail, head, lit) == [tail |-> tail, head |-> head, lit |-> lit]
Interval(start, size, presence) ==
    [start |-> start, size |-> size, presence |-> presence]

NewIntVar(m, lo, hi, name) ==
    [m EXCEPT !.variables = Append(@, [name |-> name, lo |-> lo, hi |-> hi])]
NewBoolVar(m, name) == NewIntVar(m, 0, 1, name)
(* the variable that the next NewIntVar or NewBoolVar on m returns *)
Fresh(m) == Len(m.variables) + 1
Add(m, c) == [m EXCEPT !.constraints = Append(@, c)]
AddAll(m, cs) == [m EXCEPT !.constraints = @ \o cs]

VarIndex(variables, name) ==
    CHOOSE k \in 1..Len(variables) : variables[k].name = name

EmptyModel == [variables |-> <<>>, constraints |-> <<>>, objective |-> <<>>]

(***************************************************************************)
(* The caller: ranking_sample_sat, lines 107-138, generalised to n tasks,  *)
(* durations durs and a choice fixed[k] in {-1, 0, 1} per task (1: the     *)
(* caller posts presence == 1 as line 127 does, 0: it posts presence == 0, *)
(* -1: it posts nothing).                                                  *)
(***************************************************************************)
CallerVars(ns, np, nr, hi) ==
    LET slot(k) == LET task == (k - 1) \div 3
                       w == (k - 1) % 3
                   IN  CASE w = 0 -> [name |-> StartVar(task), lo |-> 0, hi |-> hi,
                                      made |-> task < ns]
                         [] w = 1 -> [name |-> PresenceVar(task), lo |-> 0, hi |-> 1,
                                      made |-> task < np]
                         [] OTHER -> [name |-> RankVar(task), lo |-> -1, hi |-> ns - 1,
                                      made |-> task < nr]
        most == IF ns >= np /\ ns >= nr THEN ns ELSE IF np >= nr THEN np ELSE nr
        all == [k \in 1..(3 * most) |-> slot(k)]
        Made(x) == x.made
        made == SelectSeq(all, Made)
    IN  [k \in 1..Len(made) |->
            [name |-> made[k].name, lo |-> made[k].lo, hi |-> made[k].hi]]

MakeArgs(variables, ns, durs, np, nr) ==
    [starts |-> [k \in 1..ns |-> VarIndex(variables, StartVar(k - 1))],
     durations |-> durs,
     presences |-> [k \in 1..np |-> VarIndex(variables, PresenceVar(k - 1))],
     ranks |-> [k \in 1..nr |-> VarIndex(variables, RankVar(k - 1))]]

FixedPresence(presence, value) ==
    Linear(Var(presence), "==", Const(value), <<>>)

MakeModel(n, durs, fixed, hi) ==
    LET variables == CallerVars(n, n, n, hi)
        a == MakeArgs(variables, n, durs, n, n)
        slots == [k \in 1..n |-> [c |-> FixedPresence(a.presences[k], fixed[k]),
                                  posted |-> fixed[k] # -1]]
        Posted(x) == x.posted
        posted == SelectSeq(slots, Posted)
        intervals == [k \in 1..n |->
                        Interval(a.starts[k], durs[k], Pos(a.presences[k]))]
    IN  [variables |-> variables,
         constraints |-> [k \in 1..Len(posted) |-> posted[k].c]
                            \o <<NoOverlap(intervals)>>,
         objective |-> <<>>]

(* presence == 1 for the first k tasks, with k = 0 or k = n // 2 as at      *)
(* line 126, or presence == 0 for every task                               *)
FixedChoices(n) ==
    {[x \in 1..n |-> IF x <= k THEN 1 ELSE -1] : k \in {0, n \div 2}}
        \cup {[x \in 1..n |-> 0]}

(***************************************************************************)
(* rank_tasks_with_circuit, lines 57-101                                   *)
(***************************************************************************)
num_tasks == Len(args.starts)

FirstArc(k, lit) == Arc(0, k + 1, Pos(lit))

(* variant: "==" written as ">=" *)
FirstRankAtLeast(k, lit) ==
    Linear(Var(args.ranks[k + 1]), ">=", Const(0), <<Pos(lit)>>)

FirstRank(k, lit) ==
    Linear(Var(args.ranks[k + 1]), "==", Const(0), <<Pos(lit)>>)

(* variant: "==" written as ">=" *)
FirstStartAtLeast(k, lit) ==
    Linear(Var(args.starts[k + 1]), ">=", Const(0), <<Pos(lit)>>)

FirstStart(k, lit) ==
    Linear(Var(args.starts[k + 1]), "==", Const(0), <<Pos(lit)>>)

LastArcs(k, lit) == <<Arc(k + 1, 0, Pos(lit))>>

(* variant: the self-loop carries presences[i] instead of its negation *)
SelfLoopArcPresent(k) == Arc(k + 1, k + 1, Pos(args.presences[k + 1]))

SelfLoopArc(k) == Arc(k + 1, k + 1, Not(args.presences[k + 1]))

(* variant: enforced by presences[i] instead of its negation *)
AbsentRankWhenPresent(k) ==
    Linear(Var(args.ranks[k + 1]), "==", Const(-1), <<Pos(args.presences[k + 1])>>)

AbsentRank(k) ==
    Linear(Var(args.ranks[k + 1]), "==", Const(-1), <<Not(args.presences[k + 1])>>)

SuccessorArc(a, b, lit) == Arc(a + 1, b + 1, Pos(lit))

(* variant: the successor is two ranks later *)
SuccessorRankSkips(a, b, lit) ==
    Linear(Var(args.ranks[b + 1]), "==", VarPlus(args.ranks[a + 1], 2), <<Pos(lit)>>)

(* variant: i and j exchanged *)
SuccessorRankReversed(a, b, lit) ==
    Linear(Var(args.ranks[a + 1]), "==", VarPlus(args.ranks[b + 1], 1), <<Pos(lit)>>)

SuccessorRank(a, b, lit) ==
    Linear(Var(args.ranks[b + 1]), "==", VarPlus(args.ranks[a + 1], 1), <<Pos(lit)>>)

(* variant: the duration subtracted instead of added *)
SuccessorStartSign(a, b, lit) ==
    Linear(Var(args.starts[b + 1]), ">=",
           VarPlus(args.starts[a + 1], 0 - args.durations[a + 1]), <<Pos(lit)>>)

SuccessorStart(a, b, lit) ==
    Linear(Var(args.starts[b + 1]), ">=",
           VarPlus(args.starts[a + 1], args.durations[a + 1]), <<Pos(lit)>>)

(* variant: the depot self-loop is not added to the arcs *)
EmptyArcsMissing(lit) == <<>>

EmptyArcs(lit) == <<Arc(0, 0, Pos(lit))>>

EmptyImplication(k, lit) == Implication(Pos(lit), Not(args.presences[k + 1]))

Raise(e) == /\ pc' = "raised"
            /\ err' = e

(* lines 57-60 *)
Enter ==
    /\ pc = "call"
    /\ arcs' = <<>>
    /\ i' = 0
    /\ pc' = "outer"
    /\ UNCHANGED <<args, model, j, err, status, sol, out, t>>

(* lines 61-73: one iteration of the outer loop up to the inner loop *)
OuterIter ==
    /\ pc = "outer"
    /\ i < num_tasks
    /\ LET start_lit == Fresh(model)
           end_lit == start_lit + 1
       IN  IF i >= Len(args.ranks)
           THEN (* ranks[i] at line 65 raises after lines 63-64 *)
                /\ model' = NewBoolVar(model, StartLit(i))
                /\ arcs' = Append(arcs, FirstArc(i, start_lit))
                /\ Raise("IndexError")
                /\ UNCHANGED j
           ELSE /\ model' = NewBoolVar(
                                AddAll(NewBoolVar(model, StartLit(i)),
                                       <<FirstRank(i, start_lit),
                                         FirstStart(i, start_lit)>>),
                                EndLit(i))
                /\ arcs' = Append(arcs, FirstArc(i, start_lit)) \o LastArcs(i, end_lit)
                /\ j' = 0
                /\ pc' = "inner"
                /\ UNCHANGED err
    /\ UNCHANGED <<args, i, status, sol, out, t>>

(* lines 75-78: the inner iteration with i == j *)
InnerSelf ==
    /\ pc = "inner"
    /\ j < num_tasks
    /\ i = j
    /\ IF i >= Len(args.presences)
       THEN (* presences[i] at line 77 raises *)
            /\ Raise("IndexError")
            /\ UNCHANGED <<model, arcs, j>>
       ELSE /\ arcs' = Append(arcs, SelfLoopArc(i))
            /\ model' = Add(model, AbsentRank(i))
            /\ j' = j + 1
            /\ UNCHANGED <<pc, err>>
    /\ UNCHANGED <<args, i, status, sol, out, t>>

(* lines 79-91: the inner iteration with i != j *)
InnerArc ==
    /\ pc = "inner"
    /\ j < num_tasks
    /\ i # j
    /\ LET literal == Fresh(model)
       IN  /\ arcs' = Append(arcs, SuccessorArc(i, j, literal))
           /\ IF j >= Len(args.ranks)
              THEN (* ranks[j] at line 82 raises after lines 80-81 *)
                   /\ model' = NewBoolVar(model, ArcLit(i, j))
                   /\ Raise("IndexError")
                   /\ UNCHANGED j
              ELSE IF i >= Len(args.durations)
              THEN (* durations[i] at line 91 raises after line 82 *)
                   /\ model' = Add(NewBoolVar(model, ArcLit(i, j)),
                                   SuccessorRank(i, j, literal))
                   /\ Raise("IndexError")
                   /\ UNCHANGED j
              ELSE /\ model' = AddAll(NewBoolVar(model, ArcLit(i, j)),
                                      <<SuccessorRank(i, j, literal),
                                        SuccessorStart(i, j, literal)>>)
                   /\ j' = j + 1
                   /\ UNCHANGED <<pc, err>>
    /\ UNCHANGED <<args, i, status, sol, out, t>>

(* the inner loop ends: next i *)
InnerExit ==
    /\ pc = "inner"
    /\ j >= num_tasks
    /\ i' = i + 1
    /\ pc' = "outer"
    /\ UNCHANGED <<args, model, arcs, j, err, status, sol, out, t>>

(* lines 93-98, entered when the outer loop ends *)
PostEmpty ==
    /\ pc = "outer"
    /\ i >= num_tasks
    /\ LET empty == Fresh(model)
           np == Len(args.presences)
           reached == IF np < num_tasks THEN np ELSE num_tasks
       IN  /\ arcs' = arcs \o EmptyArcs(empty)
           /\ model' = AddAll(NewBoolVar(model, EmptyLit),
                              [k \in 1..reached |-> EmptyImplication(k - 1, empty)])
           /\ IF np < num_tasks
              THEN Raise("IndexError")
              ELSE pc' = "circuit" /\ UNCHANGED err
    /\ UNCHANGED <<args, i, j, status, sol, out, t>>

(* line 101 *)
AddCircuit ==
    /\ pc = "circuit"
    /\ model' = Add(model, Circuit(arcs))
    /\ pc' = "returned"
    /\ UNCHANGED <<args, arcs, i, j, err, status, sol, out, t>>

Encode == Enter \/ OuterIter \/ InnerSelf \/ InnerArc \/ InnerExit
            \/ PostEmpty \/ AddCircuit

(***************************************************************************)
(* The solver: which assignments satisfy a model.  An assignment is a      *)
(* sequence of integers, val[v] the value of variable v, each in the       *)
(* variable's domain; a Boolean variable is an integer variable of domain  *)
(* [0, 1].                                                                 *)
(***************************************************************************)
LitTrue(lit, val) == IF lit.pos THEN val[lit.var] = 1 ELSE val[lit.var] = 0

RECURSIVE SumTerms(_, _, _)
SumTerms(terms, k, val) ==
    IF k > Len(terms) THEN 0
    ELSE terms[k][1] * val[terms[k][2]] + SumTerms(terms, k + 1, val)

Eval(e, val) == SumTerms(e.terms, 1, val) + e.const

Compare(x, op, y) ==
    CASE op = "==" -> x = y
      [] op = ">=" -> x >= y
      [] op = "<=" -> x <= y
      [] op = "<" -> x < y
      [] OTHER -> FALSE

TermVars(e) == {e.terms[k][2] : k \in 1..Len(e.terms)}
LitVars(lits) == {lits[k].var : k \in 1..Len(lits)}

VarsOf(c) ==
    CASE c.type = "linear" -> TermVars(c.lhs) \cup TermVars(c.rhs) \cup LitVars(c.enf)
      [] c.type = "implication" -> {c.a.var, c.b.var}
      [] c.type = "circuit" -> {c.arcs[k].lit.var : k \in 1..Len(c.arcs)}
      [] c.type = "no_overlap" ->
            UNION {{c.intervals[k].start, c.intervals[k].presence.var} :
                        k \in 1..Len(c.intervals)}
      [] OTHER -> {}

(* model.Add(...).OnlyEnforceIf(...): the relation holds when every        *)
(* enforcement literal is true                                             *)
LinearHolds(c, val) ==
    (\A k \in 1..Len(c.enf) : LitTrue(c.enf[k], val))
        => Compare(Eval(c.lhs, val), c.op, Eval(c.rhs, val))

ImplicationHolds(c, val) == LitTrue(c.a, val) => LitTrue(c.b, val)

(* AddNoOverlap: two present intervals do not overlap *)
NoOverlapHolds(c, val) ==
    \A a, b \in 1..Len(c.intervals) :
        LET x == c.intervals[a]
            y == c.intervals[b]
        IN  (a < b /\ LitTrue(x.presence, val) /\ LitTrue(y.presence, val))
                => \/ val[x.start] + x.size <= val[y.start]
                   \/ val[y.start] + y.size <= val[x.start]

Nodes(as) == {as[k].tail : k \in 1..Len(as)} \cup {as[k].head : k \in 1..Len(as)}

RECURSIVE Orbit(_, _, _)
Orbit(succ, u, steps) ==
    IF steps = 0 THEN {u} ELSE {u} \cup Orbit(succ, succ[u], steps - 1)

(* AddCircuit: the arcs whose literal is true give every node exactly one  *)
(* outgoing and one incoming arc, and the nodes that do not take their     *)
(* self-loop lie on a single cycle                                         *)
CircuitHolds(c, val) ==
    LET as == c.arcs
        selected == {k \in 1..Len(as) : LitTrue(as[k].lit, val)}
        nodes == Nodes(as)
        outOf(u) == {k \in selected : as[k].tail = u}
        into(u) == {k \in selected : as[k].head = u}
    IN  /\ \A u \in nodes : Cardinality(outOf(u)) = 1 /\ Cardinality(into(u)) = 1
        /\ LET succ == [u \in nodes |-> as[CHOOSE k \in outOf(u) : TRUE].head]
               moving == {u \in nodes : succ[u] # u}
           IN  \A u \in moving : Orbit(succ, u, Cardinality(moving)) = moving

Holds(c, val) ==
    CASE c.type = "linear" -> LinearHolds(c, val)
      [] c.type = "implication" -> ImplicationHolds(c, val)
      [] c.type = "circuit" -> CircuitHolds(c, val)
      [] c.type = "no_overlap" -> NoOverlapHolds(c, val)
      [] OTHER -> FALSE

InDomain(m, val) ==
    \A v \in 1..Len(m.variables) :
        m.variables[v].lo <= val[v] /\ val[v] <= m.variables[v].hi

(* val is a solution of m *)
Satisfies(m, val) ==
    /\ Len(val) = Len(m.variables)
    /\ InDomain(m, val)
    /\ \A k \in 1..Len(m.constraints) : Holds(m.constraints[k], val)

(* Every way to take one outgoing arc per node with no two arcs entering   *)
(* the same node: the candidate selections of a circuit.                   *)
RECURSIVE SelectArcs(_, _, _)
SelectArcs(as, left, chosen) ==
    IF left = {} THEN {chosen}
    ELSE LET u == CHOOSE x \in left : TRUE
             heads == {as[k].head : k \in chosen}
         IN  UNION {SelectArcs(as, left \ {u}, chosen \cup {k}) :
                        k \in {x \in 1..Len(as) :
                                    as[x].tail = u /\ as[x].head \notin heads}}

(* The values of the arc literals' variables under a selection, when the   *)
(* literals of the selected arcs can be true and all the others false:     *)
(* an assignment of all variables, the others at their lower bound.        *)
ArcValues(m, as, chosen) ==
    LET need(k) == IF as[k].lit.pos = (k \in chosen) THEN 1 ELSE 0
        vs == {as[k].lit.var : k \in 1..Len(as)}
        of(v) == {need(k) : k \in {x \in 1..Len(as) : as[x].lit.var = v}}
    IN  IF \A v \in vs : Cardinality(of(v)) = 1
        THEN {[v \in 1..Len(m.variables) |->
                    IF v \in vs THEN CHOOSE x \in of(v) : TRUE ELSE m.variables[v].lo]}
        ELSE {}

Max(xs) == CHOOSE x \in xs : \A y \in xs : y <= x
Minimum(xs) == CHOOSE x \in xs : \A y \in xs : x <= y

(* For the search: the variables `given` are already assigned and the      *)
(* others get their values in the order of their index.  at[v] is the set  *)
(* of constraints to check when v gets its value: those whose last         *)
(* variable outside `given` is v.  at[0]: those with no variable outside.  *)
Schedule(m, given) ==
    LET rest(k) == VarsOf(m.constraints[k]) \ given
        last == [k \in 1..Len(m.constraints) |->
                    IF rest(k) = {} THEN 0 ELSE Max(rest(k))]
    IN  [given |-> given,
         at |-> [v \in 0..Len(m.variables) |->
                    {k \in 1..Len(m.constraints) : last[k] = v}]]

(* The assignments that agree with val on the given variables and on the   *)
(* variables before v, and satisfy m.                                      *)
RECURSIVE Extend(_, _, _, _)
Extend(m, sched, val, v) ==
    IF v > Len(m.variables) THEN {val}
    ELSE IF v \in sched.given
         THEN Extend(m, sched, val, v + 1)
         ELSE UNION {Extend(m, sched, [val EXCEPT ![v] = x], v + 1) :
                        x \in {y \in m.variables[v].lo..m.variables[v].hi :
                                \A c \in sched.at[v] :
                                    Holds(m.constraints[c], [val EXCEPT ![v] = y])}}

(* All assignments that satisfy every constraint of m. *)
Solutions(m) ==
    LET IsCircuit(c) == c.type = "circuit"
        circuits == SelectSeq(m.constraints, IsCircuit)
    IN  UNION {
            UNION {
                UNION {Extend(m, sched, val, 1) :
                        val \in {x \in UNION {ArcValues(m, as, chosen) :
                                                chosen \in SelectArcs(as, Nodes(as), {})} :
                                    /\ InDomain(m, x)
                                    /\ \A c \in sched.at[0] : Holds(m.constraints[c], x)}} :
                sched \in {Schedule(m, {as[k].lit.var : k \in 1..Len(as)})}} :
            as \in {IF Len(circuits) = 0 THEN <<>> ELSE circuits[1].arcs}}

(* solver.Solve(model), line 158 *)
Solve(at) ==
    /\ pc = at
    /\ \E S \in {Solutions(model)} :
          IF S = {}
          THEN status' = "INFEASIBLE" /\ sol' = <<>>
          ELSE IF model.objective = <<>>
          THEN status' = "OPTIMAL" /\ sol' \in S
          ELSE \E best \in {Minimum({Eval(model.objective[1], a) : a \in S})} :
                    /\ status' = "OPTIMAL"
                    /\ sol' \in {a \in S : Eval(model.objective[1], a) = best}
    /\ pc' = "solved"
    /\ UNCHANGED <<args, model, arcs, i, j, err, out, t>>

(***************************************************************************)
(* Specifications                                                          *)
(***************************************************************************)
Start(a, m) ==
    /\ args = a
    /\ model = m
    /\ arcs = <<>>
    /\ i = 0
    /\ j = 0
    /\ pc = "call"
    /\ err = "none"
    /\ status = "UNKNOWN"
    /\ sol = <<>>
    /\ out = <<>>
    /\ t = 0

(* The encoder treats the tasks alike, so the durations are listed in      *)
(* non-decreasing order, as the sample's are (duration = t + 1).           *)
DurationChoices(n) ==
    {d \in [1..n -> 1..MaxDur] : \A x \in 1..n : x < n => d[x] <= d[x + 1]}

(* Well-formed calls: n tasks, positive durations, rank domains [-1, n-1], *)
(* the tasks in one NoOverlap constraint. *)
Init ==
    \E n \in 0..MaxTasks :
        \E durs \in DurationChoices(n) :
            \E fixed \in FixedChoices(n) :
                \E m \in {MakeModel(n, durs, fixed, Horizon)} :
                    Start(MakeArgs(m.variables, n, durs, n, n), m)

SolveGeneric == Solve("returned")

Next == Encode \/ SolveGeneric

Spec == Init /\ [][Next]_vars

(***************************************************************************)
(* ranking_sample_sat after the call of line 141: lines 143-176            *)
(***************************************************************************)
SampleDurations == [k \in 1..sample_num_tasks |-> k]

SampleFixed ==
    [k \in 1..sample_num_tasks |->
        IF k - 1 < sample_num_tasks \div 2 THEN 1 ELSE -1]

RankOrder == Linear(Var(args.ranks[1]), "<", Var(args.ranks[2]), <<>>)

MakespanBound(k, makespan) ==
    Linear(VarPlus(args.starts[k + 1], args.durations[k + 1]), "<=",
           Var(makespan), <<Pos(args.presences[k + 1])>>)

(* variant: a gain of 8 per task performed instead of 7 *)
ObjectiveGain8(makespan) ==
    Lin(<<<<2, makespan>>>>
            \o [k \in 1..sample_num_tasks |-> <<-8, args.presences[k]>>], 0)

Objective(makespan) ==
    Lin(<<<<2, makespan>>>>
            \o [k \in 1..sample_num_tasks |-> <<-7, args.presences[k]>>], 0)

(* line 144 *)
AddRankOrder ==
    /\ pc = "returned"
    /\ model' = Add(model, RankOrder)
    /\ pc' = "makespan"
    /\ UNCHANGED <<args, arcs, i, j, err, status, sol, out, t>>

(* lines 147-149 *)
AddMakespan ==
    /\ pc = "makespan"
    /\ model' = AddAll(NewIntVar(model, 0, SampleHorizon, MakespanVar),
                       [k \in 1..sample_num_tasks |-> MakespanBound(k - 1, Fresh(model))])
    /\ pc' = "minimize"
    /\ UNCHANGED <<args, arcs, i, j, err, status, sol, out, t>>

(* line 154 *)
Minimize ==
    /\ pc = "minimize"
    /\ model' = [model EXCEPT
                    !.objective = <<Objective(VarIndex(model.variables, MakespanVar))>>]
    /\ pc' = "solve"
    /\ UNCHANGED <<args, arcs, i, j, err, status, sol, out, t>>

SolveSample == Solve("solve")

(* lines 160-163 and 175-176 *)
PrintHeader ==
    /\ pc = "solved"
    /\ IF status = "OPTIMAL"
       THEN /\ out' = <<<<"Optimal cost", Eval(model.objective[1], sol)>>,
                        <<"Makespan", sol[VarIndex(model.variables, MakespanVar)]>>>>
            /\ pc' = "print"
       ELSE /\ out' = <<<<"Solver exited with nonoptimal status", status>>>>
            /\ pc' = "done"
    /\ t' = 0
    /\ UNCHANGED <<args, model, arcs, i, j, err, status, sol>>

(* lines 164-174: one task *)
PrintTask ==
    /\ pc = "print"
    /\ t < sample_num_tasks
    /\ out' = Append(out,
                IF sol[args.presences[t + 1]] # 0
                THEN <<"Task starts at with rank", t, sol[args.starts[t + 1]],
                       sol[args.ranks[t + 1]]>>
                ELSE <<"Task in not performed and ranked at", t,
                       sol[args.ranks[t + 1]]>>)
    /\ t' = t + 1
    /\ UNCHANGED <<args, model, arcs, i, j, pc, err, status, sol>>

PrintEnd ==
    /\ pc = "print"
    /\ t >= sample_num_tasks
    /\ pc' = "done"
    /\ UNCHANGED <<args, model, arcs, i, j, err, status, sol, out, t>>

InitSample ==
    \E m \in {MakeModel(sample_num_tasks, SampleDurations, SampleFixed, SampleHorizon)} :
        Start(MakeArgs(m.variables, sample_num_tasks, SampleDurations,
                       sample_num_tasks, sample_num_tasks), m)

NextSample == Encode \/ AddRankOrder \/ AddMakespan \/ Minimize \/ SolveSample
                \/ PrintHeader \/ PrintTask \/ PrintEnd

SpecSample == InitSample /\ [][NextSample]_vars

(***************************************************************************)
(* Calls of rank_tasks_with_circuit with arbitrary arguments: sequences of *)
(* any lengths, durations that may be zero.                                *)
(***************************************************************************)
InitContract ==
    \E ns \in 0..MaxTasks, nd \in 0..MaxTasks, np \in 0..MaxTasks, nr \in 0..MaxTasks :
        \E durs \in [1..nd -> 0..MaxDur] :
            \E variables \in {CallerVars(ns, np, nr, Horizon)} :
                Start(MakeArgs(variables, ns, durs, np, nr),
                      [EmptyModel EXCEPT !.variables = variables])

NextContract == Encode

SpecContract == InitContract /\ [][NextContract]_vars

(***************************************************************************)
(* The encoding without the constraint of line 69: the posted model minus  *)
(* every starts[i] == 0 enforced by a "first" literal, and its solutions.  *)
(***************************************************************************)
WithoutFirstStart(m) ==
    LET dropped == {FirstStart(k, VarIndex(m.variables, StartLit(k))) :
                        k \in 0..(num_tasks - 1)}
        Kept(c) == ~(c.type = "linear" /\ c \in dropped)
    IN  [m EXCEPT !.constraints = SelectSeq(@, Kept)]

SolveWithout ==
    /\ pc = "returned"
    /\ \E S \in {Solutions(WithoutFirstStart(model))} :
          IF S = {}
          THEN status' = "INFEASIBLE" /\ sol' = <<>>
          ELSE status' = "OPTIMAL" /\ sol' \in S
    /\ pc' = "solved_without"
    /\ UNCHANGED <<args, model, arcs, i, j, err, out, t>>

NextRelaxed == Encode \/ SolveGeneric \/ SolveWithout

SpecRelaxed == Init /\ [][NextRelaxed]_vars

(***************************************************************************)
(* Properties                                                              *)
(***************************************************************************)
Tasks == 0..(num_tasks - 1)
Found == pc = "solved" /\ status = "OPTIMAL"
Present(k) == sol[args.presences[k + 1]] = 1
RankOf(k) == sol[args.ranks[k + 1]]
StartOf(k) == sol[args.starts[k + 1]]
PresentTasks == {k \in Tasks : Present(k)}

(* C1: in every solution with k present tasks, the ranks of the present    *)
(* tasks are exactly 0..k-1 without repeat; when k >= 1 exactly one task   *)
(* has rank 0 and exactly one has rank k-1.                                *)
C1_Permutation ==
    Found =>
        LET k == Cardinality(PresentTasks)
        IN  /\ {RankOf(x) : x \in PresentTasks} = 0..(k - 1)
            /\ \A x, y \in PresentTasks : x # y => RankOf(x) # RankOf(y)
            /\ k >= 1 => /\ Cardinality({x \in Tasks : RankOf(x) = 0}) = 1
                         /\ Cardinality({x \in Tasks : RankOf(x) = k - 1}) = 1

C1_Witness == Found /\ num_tasks = 3 /\ Cardinality(PresentTasks) = 3

(* C2: in every solution, a task is absent iff its rank is -1. *)
C2_Sentinel ==
    Found => \A k \in Tasks : (~Present(k)) <=> (RankOf(k) = -1)

C2_Witness ==
    /\ Found
    /\ \E a, b \in Tasks : Present(a) /\ RankOf(a) # -1 /\ ~Present(b) /\ RankOf(b) = -1

(* C3: in every solution, if i and j are present and ranks[j] = ranks[i]+1 *)
(* then starts[j] >= starts[i] + durations[i].                             *)
C3_OrderConsistency ==
    Found =>
        \A a, b \in PresentTasks :
            RankOf(b) = RankOf(a) + 1 => StartOf(b) >= StartOf(a) + args.durations[a + 1]

C3_Witness ==
    /\ Found
    /\ \E a, b \in PresentTasks :
            /\ RankOf(b) = RankOf(a) + 1
            /\ StartOf(b) > StartOf(a) + args.durations[a + 1]

(* C4: in every solution, for any two present tasks i and j,               *)
(* ranks[i] < ranks[j] iff starts[i] < starts[j].                          *)
C4_RankOrderIsStartOrder ==
    Found =>
        \A a, b \in PresentTasks : (RankOf(a) < RankOf(b)) <=> (StartOf(a) < StartOf(b))

C4_Witness ==
    /\ Found
    /\ \E a, b \in PresentTasks : RankOf(b) = RankOf(a) + 2 /\ StartOf(a) < StartOf(b)

(* the caller forces every presence to false *)
AllForcedAbsent ==
    \A k \in Tasks :
        \E c \in 1..Len(model.constraints) :
            /\ model.constraints[c].type = "linear"
            /\ model.constraints[c] = FixedPresence(args.presences[k + 1], 0)

(* C5: when every presence is forced false the model is satisfiable, and   *)
(* in every solution all ranks are -1 and the empty literal is true.       *)
C5_EmptyCase ==
    (pc = "solved" /\ AllForcedAbsent) =>
        /\ status = "OPTIMAL"
        /\ \A k \in Tasks : RankOf(k) = -1
        /\ sol[VarIndex(model.variables, EmptyLit)] = 1

C5_Witness ==
    /\ Found
    /\ AllForcedAbsent
    /\ num_tasks = 3
    /\ sol[VarIndex(model.variables, EmptyLit)] = 1

(* the call breaks the contract of the docstring *)
ContractViolation ==
    \/ Len(args.durations) # num_tasks
    \/ Len(args.presences) # num_tasks
    \/ Len(args.ranks) # num_tasks
    \/ \E k \in 1..Len(args.durations) : args.durations[k] <= 0

(* C6: a call that violates the contract (sequences of unequal lengths or  *)
(* a duration <= 0) fails with an invalid-input error and leaves the model *)
(* as the caller built it: no variable, arc or constraint is added.        *)
C6_FailsFast ==
    ContractViolation =>
        /\ pc # "returned"
        /\ pc = "raised" => err = "InvalidInput"
        /\ arcs = <<>>
        /\ model.constraints = <<>>
        /\ Len(model.variables)
                = Len(args.starts) + Len(args.presences) + Len(args.ranks)

(* C7: the sample has a solution with tasks 0-2 present, their ranks a     *)
(* permutation of 0,1,2 with ranks[0] < ranks[1] that follows the starts,  *)
(* task 3 absent with rank -1, the makespan the end of the last present    *)
(* task and the objective 2*makespan - 21; every optimal solution is so.   *)
C7_SampleOptimum ==
    pc \in {"solved", "print", "done"} =>
        /\ status = "OPTIMAL"
        /\ PresentTasks = {0, 1, 2}
        /\ {RankOf(x) : x \in {0, 1, 2}} = {0, 1, 2}
        /\ RankOf(0) < RankOf(1)
        /\ RankOf(3) = -1
        /\ \A a, b \in PresentTasks :
                RankOf(b) = RankOf(a) + 1
                    => StartOf(b) >= StartOf(a) + args.durations[a + 1]
        /\ sol[VarIndex(model.variables, MakespanVar)]
                = Max({StartOf(x) + args.durations[x + 1] : x \in PresentTasks})
        /\ Eval(model.objective[1], sol)
                = 2 * sol[VarIndex(model.variables, MakespanVar)] - 21

C7_Witness ==
    /\ pc = "done"
    /\ status = "OPTIMAL"
    /\ Len(out) = 2 + sample_num_tasks
    /\ out[1] = <<"Optimal cost", -9>>
    /\ out[2] = <<"Makespan", 6>>
    /\ out[6] = <<"Task in not performed and ranked at", 3, -1>>

(* the present task of rank 0 starts at 0 *)
FirstAtZero == \A k \in PresentTasks : RankOf(k) = 0 => StartOf(k) = 0

IsCircuitConstraint(c) == c.type = "circuit"

(* C9: the arcs given to the one AddCircuit call hold exactly one arc per  *)
(* ordered pair of nodes of 0..n, (n+1)^2 arcs; the self-loop of node i+1  *)
(* carries the negation of presences[i], the depot's the empty literal;    *)
(* for n = 0 the list is the depot self-loop alone.                        *)
C9_CompleteGraph ==
    pc \in {"returned", "solved"} =>
        LET circuits == SelectSeq(model.constraints, IsCircuitConstraint)
            as == circuits[1].arcs
            empty == Pos(VarIndex(model.variables, EmptyLit))
        IN  /\ Len(circuits) = 1
            /\ Len(as) = (num_tasks + 1) * (num_tasks + 1)
            /\ \A u, v \in 0..num_tasks :
                    Cardinality({k \in 1..Len(as) : as[k].tail = u /\ as[k].head = v}) = 1
            /\ \A k \in 1..Len(as) :
                    as[k].tail = as[k].head =>
                        as[k].lit = IF as[k].tail = 0 THEN empty
                                    ELSE Not(args.presences[as[k].tail])
            /\ num_tasks = 0 => as = <<Arc(0, 0, empty)>>

C9_Witness ==
    /\ pc = "returned"
    /\ num_tasks = 3
    /\ Len(arcs) = 16
    /\ model.constraints[Len(model.constraints)] = Circuit(arcs)

(* the presences and starts of an assignment *)
Timetable(val) ==
    <<[k \in 1..num_tasks |-> val[args.presences[k]]],
      [k \in 1..num_tasks |-> val[args.starts[k]]]>>

(* C10: two solutions that agree on all presences and all starts agree on  *)
(* every rank and every literal: no two solutions have the same            *)
(* presences and starts, i.e. there are as many solutions as there are     *)
(* values of (presences, starts) among them.                               *)
C10_RanksDetermined ==
    pc = "returned" =>
        \A S \in {Solutions(model)} :
            Cardinality({Timetable(a) : a \in S}) = Cardinality(S)

C10_Witness ==
    /\ pc = "returned"
    /\ num_tasks = 3
    /\ \E a \in Solutions(model) : \A k \in 1..num_tasks : a[args.presences[k]] = 1

====
